---- MODULE Spec2Model ----
(***************************************************************************)
(* State-machine model of the two pipeline entry points of ppdiffusers:    *)
(*   StableDiffusionImg2ImgPipeline.__call__   (pipeline = "img2img")      *)
(*   ConsistencyModelPipeline.__call__         (pipeline = "consistency")  *)
(* One behaviour is one invocation.  The arguments the caller passed are   *)
(* held in args and never change; the callee's local names that the code   *)
(* rebinds (num_inference_steps, timesteps, prompt_embeds, latents, ...)   *)
(* are variables of their own.  Tensors are sequences with one integer per *)
(* batch element; the neural collaborators are deterministic element-wise  *)
(* stand-ins, and a collaborator may fault wherever the code calls it.     *)
(***************************************************************************)
EXTENDS Integers, Sequences, FiniteSets, TLC

\* ---------------------------------------------------------------- bounds
\* strength is the exact fraction k / StrengthDen; with the denominator 4
\* every strength is a binary fraction, so the floating-point product
\* num_inference_steps * strength of the code is exact.
StrengthDen == 4
MaxSteps == 3
MaxGuidance == 3
MaxOrder == 2
MaxCallbackSteps == 3
MaxImagesPerPrompt == 3
MaxImages == 2
MaxGenerators == 3
MaxSigma == 2

\* ------------------------------------------------------- optional values
None == [tag |-> "None"]
IsNone(x) == x.tag = "None"
IntV(n) == [tag |-> "int", v |-> n]
StrV == [tag |-> "str"]
ListV(n) == [tag |-> "list", len |-> n]
OtherV == [tag |-> "other"]
Tensor(shape, dtype, vals) ==
    [tag |-> "tensor", shape |-> shape, dtype |-> dtype, vals |-> vals]
Generator(seed) == [tag |-> "generator", seed |-> seed]

\* ------------------------------------------------------ sequence helpers
Range(s) == {s[k] : k \in 1..Len(s)}
Min2(a, b) == IF a < b THEN a ELSE b
Max2(a, b) == IF a > b THEN a ELSE b
\* Python s[k:]
SliceFrom(s, k) == IF k >= Len(s) THEN <<>> ELSE SubSeq(s, k + 1, Len(s))
\* Python s[:k]
SliceTo(s, k) == IF k >= Len(s) THEN s ELSE SubSeq(s, 1, k)
\* a variant that does not replicate
Repeat_once(s, n) == s
\* paddle.concat(x=[s] * n, axis=0)
Repeat(s, n) == [k \in 1..(Len(s) * n) |-> s[((k - 1) % Len(s)) + 1]]
\* x.tile([1, n, 1]).reshape([b * n, seq, -1]): every element n times in a row
TileEach(s, n) == [k \in 1..(Len(s) * n) |-> s[((k - 1) \div n) + 1]]
\* broadcast of a per-example vector against a batch of length n
Broadcast(s, k) == s[((k - 1) % Len(s)) + 1]
Count(s, x) == Cardinality({k \in 1..Len(s) : s[k] = x})

SeqV(s) == [tag |-> "seq", v |-> s]
GenList(seeds) == [tag |-> "list", seeds |-> seeds]
LabelList(vals) == [tag |-> "list", vals |-> vals]

\* ------------------------------------------------------------ exceptions
NoError == [type |-> "none", at |-> ""]
ValueError(at) == [type |-> "ValueError", at |-> at]
TypeError(at) == [type |-> "TypeError", at |-> at]
\* a collaborator (model, scheduler, framework call) failed
Fault(at) == [type |-> "Fault", at |-> at]

\* ------------------------------------------- img2img: input validation
\* a variant that lets callback_steps = 0 pass
BadCallbackSteps_negative_only(callback_steps) ==
    \/ IsNone(callback_steps)
    \/ callback_steps.tag # "int"
    \/ callback_steps.v < 0

\* isinstance(callback_steps, int) and callback_steps > 0, negated
BadCallbackSteps(callback_steps) ==
    \/ IsNone(callback_steps)
    \/ callback_steps.tag # "int"
    \/ callback_steps.v <= 0

\* a variant of check_inputs that compares the embeddings' batch sizes only
I2I_check_inputs_batch_only(prompt, strength, callback_steps, negative_prompt, prompt_embeds, negative_prompt_embeds) ==
    IF strength < 0 \/ strength > StrengthDen
    THEN ValueError("strength")
    ELSE IF BadCallbackSteps(callback_steps)
    THEN ValueError("callback_steps")
    ELSE IF ~IsNone(prompt) /\ ~IsNone(prompt_embeds)
    THEN ValueError("prompt_both")
    ELSE IF IsNone(prompt) /\ IsNone(prompt_embeds)
    THEN ValueError("prompt_neither")
    ELSE IF ~IsNone(prompt) /\ prompt.tag \notin {"str", "list"}
    THEN ValueError("prompt_type")
    ELSE IF ~IsNone(negative_prompt) /\ ~IsNone(negative_prompt_embeds)
    THEN ValueError("negative_both")
    ELSE IF /\ ~IsNone(prompt_embeds)
            /\ ~IsNone(negative_prompt_embeds)
            /\ prompt_embeds.shape[1] # negative_prompt_embeds.shape[1]
    THEN ValueError("embeds_shape")
    ELSE NoError

\* a variant of check_inputs whose strength interval is open
I2I_check_inputs_open_interval(prompt, strength, callback_steps, negative_prompt, prompt_embeds, negative_prompt_embeds) ==
    IF strength <= 0 \/ strength >= StrengthDen
    THEN ValueError("strength")
    ELSE IF BadCallbackSteps(callback_steps)
    THEN ValueError("callback_steps")
    ELSE IF ~IsNone(prompt) /\ ~IsNone(prompt_embeds)
    THEN ValueError("prompt_both")
    ELSE IF IsNone(prompt) /\ IsNone(prompt_embeds)
    THEN ValueError("prompt_neither")
    ELSE IF ~IsNone(prompt) /\ prompt.tag \notin {"str", "list"}
    THEN ValueError("prompt_type")
    ELSE IF ~IsNone(negative_prompt) /\ ~IsNone(negative_prompt_embeds)
    THEN ValueError("negative_both")
    ELSE IF /\ ~IsNone(prompt_embeds)
            /\ ~IsNone(negative_prompt_embeds)
            /\ prompt_embeds.shape # negative_prompt_embeds.shape
    THEN ValueError("embeds_shape")
    ELSE NoError

\* a variant of check_inputs without the "both supplied" branch
I2I_check_inputs_both_allowed(prompt, strength, callback_steps, negative_prompt, prompt_embeds, negative_prompt_embeds) ==
    IF strength < 0 \/ strength > StrengthDen
    THEN ValueError("strength")
    ELSE IF BadCallbackSteps(callback_steps)
    THEN ValueError("callback_steps")
    ELSE IF IsNone(prompt) /\ IsNone(prompt_embeds)
    THEN ValueError("prompt_neither")
    ELSE IF ~IsNone(prompt) /\ prompt.tag \notin {"str", "list"}
    THEN ValueError("prompt_type")
    ELSE IF ~IsNone(negative_prompt) /\ ~IsNone(negative_prompt_embeds)
    THEN ValueError("negative_both")
    ELSE IF /\ ~IsNone(prompt_embeds)
            /\ ~IsNone(negative_prompt_embeds)
            /\ prompt_embeds.shape # negative_prompt_embeds.shape
    THEN ValueError("embeds_shape")
    ELSE NoError

\* check_inputs of the img2img pipeline; strength is the numerator k of
\* k / StrengthDen.  The result is the exception raised, or NoError.
I2I_check_inputs(prompt, strength, callback_steps, negative_prompt, prompt_embeds, negative_prompt_embeds) ==
    IF strength < 0 \/ strength > StrengthDen
    THEN ValueError("strength")
    ELSE IF BadCallbackSteps(callback_steps)
    THEN ValueError("callback_steps")
    ELSE IF ~IsNone(prompt) /\ ~IsNone(prompt_embeds)
    THEN ValueError("prompt_both")
    ELSE IF IsNone(prompt) /\ IsNone(prompt_embeds)
    THEN ValueError("prompt_neither")
    ELSE IF ~IsNone(prompt) /\ prompt.tag \notin {"str", "list"}
    THEN ValueError("prompt_type")
    ELSE IF ~IsNone(negative_prompt) /\ ~IsNone(negative_prompt_embeds)
    THEN ValueError("negative_both")
    ELSE IF /\ ~IsNone(prompt_embeds)
            /\ ~IsNone(negative_prompt_embeds)
            /\ prompt_embeds.shape # negative_prompt_embeds.shape
    THEN ValueError("embeds_shape")
    ELSE NoError

\* "2. Define call parameters": the batch size of the prompt
I2I_batch_size(prompt, prompt_embeds) ==
    IF ~IsNone(prompt) /\ prompt.tag = "str" THEN 1
    ELSE IF ~IsNone(prompt) /\ prompt.tag = "list" THEN prompt.len
    ELSE prompt_embeds.shape[1]

\* a variant that enables guidance from guidance_scale = 1 on
do_classifier_free_guidance_geq(guidance_scale) == guidance_scale >= 1

\* do_classifier_free_guidance = guidance_scale > 1.0
do_classifier_free_guidance(guidance_scale) == guidance_scale > 1

\* ------------------------------------------------ img2img: get_timesteps
\* Python int() of the fraction num / den: truncation toward zero
PyInt(num, den) == IF num >= 0 THEN num \div den ELSE -((-num) \div den)

\* Python round() of the fraction num / den (num >= 0): half to even
PyRound(num, den) ==
    IF 2 * (num % den) < den THEN num \div den
    ELSE IF 2 * (num % den) > den THEN (num \div den) + 1
    ELSE IF (num \div den) % 2 = 0 THEN num \div den
    ELSE (num \div den) + 1

\* a variant that rounds the product instead of truncating it
init_timestep_rounded(num_inference_steps, strength) ==
    Min2(PyRound(num_inference_steps * strength, StrengthDen), num_inference_steps)

\* init_timestep = min(int(num_inference_steps * strength), num_inference_steps)
init_timestep(num_inference_steps, strength) ==
    Min2(PyInt(num_inference_steps * strength, StrengthDen), num_inference_steps)

\* a variant that never starts at the head of the schedule
t_start_skip_first(num_inference_steps, strength) ==
    Max2(num_inference_steps - init_timestep(num_inference_steps, strength), 1)

\* t_start = max(num_inference_steps - init_timestep, 0)
t_start(num_inference_steps, strength) ==
    Max2(num_inference_steps - init_timestep(num_inference_steps, strength), 0)

\* timesteps = self.scheduler.timesteps[t_start * self.scheduler.order:]
\* return timesteps, num_inference_steps - t_start
\* a variant that returns the step count it was given
get_timesteps_same_count(scheduler_timesteps, order, num_inference_steps, strength) ==
    [timesteps |->
        SliceFrom(scheduler_timesteps,
                  t_start(num_inference_steps, strength) * order),
     num_inference_steps |-> num_inference_steps]

get_timesteps_no_order(scheduler_timesteps, order, num_inference_steps, strength) ==
    [timesteps |->
        SliceFrom(scheduler_timesteps,
                  t_start(num_inference_steps, strength)),
     num_inference_steps |->
        num_inference_steps - t_start(num_inference_steps, strength)]

get_timesteps(scheduler_timesteps, order, num_inference_steps, strength) ==
    [timesteps |->
        SliceFrom(scheduler_timesteps,
                  t_start(num_inference_steps, strength) * order),
     num_inference_steps |->
        num_inference_steps - t_start(num_inference_steps, strength)]


\* ------------------------------------------- collaborators (stand-ins)
\* Deterministic element-wise stand-ins of the external collaborators; the
\* numbers carry no meaning beyond telling different inputs apart (they
\* are kept below a prime so that a long run stays within machine integers).
Mix(x) == x % 9973
\* text encoder: one embedding per token sequence
TextEncoderElem(tok) == 100 + tok
\* tokens of the k-th prompt, of the empty prompt, of a negative prompt
PromptToken(k) == k
EmptyToken == 0
NegativeToken(k) == 50 + k
\* denoising model: noise residual of one batch element
UNetElem(x, t, cond) == Mix(3 * x + 5 * t + 7 * cond + 1)
\* scheduler.scale_model_input, scheduler.step, scheduler.add_noise
ScaleElem(x, t) == Mix(2 * x + t)
StepElem(pred, t, x) == Mix(x + 11 * pred + t)
AddNoiseElem(x, noise, t) == Mix(x + noise * (t + 1))
\* vae.encode(...).latent_dist.sample(generator): mean plus drawn noise
EncodeElem(x, noise) == 1000 * x + noise
\* the value a generator of this seed yields for element k of its draw-th draw
Randn(seed, draw, k) == 1 + ((7 * seed + 3 * draw + k) % 5)
\* scheduler.set_timesteps(n): a descending schedule; a scheduler of order
\* o exposes n * o entries, or n * o - (o - 1) when it does not repeat the
\* last one
SchedulerLen(n, order, full) ==
    IF full THEN n * order ELSE Max2(n * order - (order - 1), 0)
set_timesteps(n, order, full) ==
    [j \in 1..SchedulerLen(n, order, full) |->
        10 * (SchedulerLen(n, order, full) - j + 1)]
\* scheduler.set_timesteps(timesteps=ts): the schedule the scheduler derives
\* from an explicit list, one entry per entry of the list, in its order
explicit_schedule(ts) == [j \in 1..Len(ts) |-> 2 * ts[j] + 1]
\* seed of the generator used for batch element k (None: the global one)
SeedOf(generator, k) ==
    IF IsNone(generator) THEN 0
    ELSE IF generator.tag = "list" THEN generator.seeds[k]
    ELSE generator.seed
IsGenList(generator) == ~IsNone(generator) /\ generator.tag = "list"

\* -------------------------------------------- img2img: _encode_prompt
\* The embeddings handed to the denoising model, one entry per batch
\* element, with the text-encoder calls made on the way.
encode_prompt(prompt, num_images_per_prompt, cfg, negative_prompt, prompt_embeds, negative_prompt_embeds) ==
    LET batch == I2I_batch_size(prompt, prompt_embeds)
        encodePos == IsNone(prompt_embeds)
        pos == IF encodePos
               THEN [k \in 1..batch |-> TextEncoderElem(PromptToken(k))]
               ELSE prompt_embeds.vals
        posSeq == IF encodePos THEN 1 ELSE prompt_embeds.shape[2]
        posTiled == TileEach(pos, num_images_per_prompt)
        encodeNeg == cfg /\ IsNone(negative_prompt_embeds)
        tokErr ==
            IF ~encodeNeg \/ IsNone(negative_prompt) THEN NoError
            ELSE IF ~IsNone(prompt) /\ prompt.tag # negative_prompt.tag
            THEN TypeError("negative_prompt_type")
            ELSE IF negative_prompt.tag = "str" THEN NoError
            ELSE IF batch # negative_prompt.len
            THEN ValueError("negative_prompt_batch")
            ELSE NoError
        uncond_tokens ==
            IF IsNone(negative_prompt) THEN [k \in 1..batch |-> EmptyToken]
            ELSE IF negative_prompt.tag = "str" THEN <<NegativeToken(1)>>
            ELSE [k \in 1..negative_prompt.len |-> NegativeToken(k)]
        neg == IF encodeNeg
               THEN [k \in 1..Len(uncond_tokens) |->
                        TextEncoderElem(uncond_tokens[k])]
               ELSE negative_prompt_embeds.vals
        negSeq == IF encodeNeg THEN posSeq ELSE negative_prompt_embeds.shape[2]
        calls_ == (IF encodePos THEN <<"text_encoder">> ELSE <<>>)
                  \o (IF encodeNeg /\ tokErr = NoError
                      THEN <<"text_encoder">> ELSE <<>>)
    IN  IF tokErr # NoError
        THEN [err |-> tokErr, embeds |-> <<>>, calls |-> calls_]
        ELSE IF ~cfg
        THEN [err |-> NoError, embeds |-> posTiled, calls |-> calls_]
        \* reshape([batch_size * num_images_per_prompt, seq_len, -1]) and
        \* concat need the two embeddings to agree in batch and length
        ELSE IF Len(neg) # batch \/ negSeq # posSeq
        THEN [err |-> Fault("concat_embeds"), embeds |-> <<>>, calls |-> calls_]
        ELSE [err |-> NoError,
              embeds |-> TileEach(neg, num_images_per_prompt) \o posTiled,
              calls |-> calls_]

\* ------------------------------------------- img2img: prepare_latents
\* What a call with inconsistent arguments does is not decided by the
\* pipeline: it returns a value, returns an empty batch, or fails.
Luck == {"value", "empty", "fault"}

\* a variant that refuses every batch size that is not a multiple
I2I_prepare_latents_any_mismatch(image, timestep, batch_size, num_images_per_prompt, generator, scaling_factor, draw, luck) ==
    LET bs == batch_size * num_images_per_prompt
        n == image.shape[1]
        latentShaped == image.shape[2] = 4
        genList == IsGenList(generator)
        genBad == genList /\ Len(generator.seeds) # bs
        \* image[i:i + 1] for i in range(batch_size) is empty from i = n on
        emptySlices == genList /\ bs > n
        encCount == IF genList THEN Min2(bs, n) ELSE n
        encoded == [k \in 1..encCount |->
                      scaling_factor *
                      EncodeElem(image.vals[k],
                                 Randn(SeedOf(generator, k), draw,
                                       IF genList THEN 1 ELSE k))]
        encCalls == IF genList THEN [k \in 1..bs |-> "vae_encode"]
                    ELSE <<"vae_encode">>
        init0 == IF latentShaped THEN image.vals ELSE encoded
        draw1 == IF latentShaped THEN draw ELSE draw + 1
        pre == <<"cast">> \o (IF latentShaped THEN <<>> ELSE encCalls)
        m0 == Len(init0)
        init == IF bs > m0 /\ bs % m0 = 0
                THEN Repeat(init0, bs \div m0) ELSE init0
        m == Len(init)
        noise == [k \in 1..m |->
                    Randn(IF genList THEN Broadcast(generator.seeds, k)
                          ELSE SeedOf(generator, k), draw1, k)]
        tlen == Len(timestep)
        noised == IF tlen = 0
                  THEN IF luck = "empty" THEN <<>>
                       ELSE [k \in 1..m |-> AddNoiseElem(init[k], noise[k], 0)]
                  ELSE [k \in 1..m |->
                          AddNoiseElem(init[k], noise[k], Broadcast(timestep, k))]
        Out(e, lat, ini, c, d) ==
            [err |-> e, latents |-> lat, init_latents |-> ini,
             calls |-> c, draws |-> d]
    IN  IF ~latentShaped /\ genBad
        THEN Out(ValueError("generator_len"), <<>>, <<>>, <<"cast">>, draw)
        ELSE IF ~latentShaped /\ emptySlices /\ luck = "fault"
        THEN Out(Fault("vae_encode"), <<>>, <<>>, pre, draw)
        ELSE IF bs # m0 /\ bs % m0 # 0
        THEN Out(ValueError("image_batch"), <<>>, init0, pre, draw1)
        ELSE IF genBad /\ luck = "fault"
        THEN Out(Fault("randn_tensor"), <<>>, init, pre \o <<"randn">>, draw1)
        ELSE IF tlen \notin {1, m} /\ luck = "fault"
        THEN Out(Fault("add_noise"), <<>>, init,
                 pre \o <<"randn", "add_noise">>, draw1 + 1)
        ELSE Out(NoError, noised, init,
                 pre \o <<"randn", "add_noise">>, draw1 + 1)

\* prepare_latents(image, timestep, batch_size, num_images_per_prompt,
\* dtype, generator); draw is the number of draws the generator made so far.
I2I_prepare_latents(image, timestep, batch_size, num_images_per_prompt, generator, scaling_factor, draw, luck) ==
    LET bs == batch_size * num_images_per_prompt
        n == image.shape[1]
        latentShaped == image.shape[2] = 4
        genList == IsGenList(generator)
        genBad == genList /\ Len(generator.seeds) # bs
        \* image[i:i + 1] for i in range(batch_size) is empty from i = n on
        emptySlices == genList /\ bs > n
        encCount == IF genList THEN Min2(bs, n) ELSE n
        encoded == [k \in 1..encCount |->
                      scaling_factor *
                      EncodeElem(image.vals[k],
                                 Randn(SeedOf(generator, k), draw,
                                       IF genList THEN 1 ELSE k))]
        encCalls == IF genList THEN [k \in 1..bs |-> "vae_encode"]
                    ELSE <<"vae_encode">>
        init0 == IF latentShaped THEN image.vals ELSE encoded
        draw1 == IF latentShaped THEN draw ELSE draw + 1
        pre == <<"cast">> \o (IF latentShaped THEN <<>> ELSE encCalls)
        m0 == Len(init0)
        init == IF bs > m0 /\ bs % m0 = 0
                THEN Repeat(init0, bs \div m0) ELSE init0
        m == Len(init)
        noise == [k \in 1..m |->
                    Randn(IF genList THEN Broadcast(generator.seeds, k)
                          ELSE SeedOf(generator, k), draw1, k)]
        tlen == Len(timestep)
        noised == IF tlen = 0
                  THEN IF luck = "empty" THEN <<>>
                       ELSE [k \in 1..m |-> AddNoiseElem(init[k], noise[k], 0)]
                  ELSE [k \in 1..m |->
                          AddNoiseElem(init[k], noise[k], Broadcast(timestep, k))]
        Out(e, lat, ini, c, d) ==
            [err |-> e, latents |-> lat, init_latents |-> ini,
             calls |-> c, draws |-> d]
    IN  IF ~latentShaped /\ genBad
        THEN Out(ValueError("generator_len"), <<>>, <<>>, <<"cast">>, draw)
        ELSE IF ~latentShaped /\ emptySlices /\ luck = "fault"
        THEN Out(Fault("vae_encode"), <<>>, <<>>, pre, draw)
        ELSE IF bs > m0 /\ bs % m0 # 0
        THEN Out(ValueError("image_batch"), <<>>, init0, pre, draw1)
        ELSE IF genBad /\ luck = "fault"
        THEN Out(Fault("randn_tensor"), <<>>, init, pre \o <<"randn">>, draw1)
        ELSE IF tlen \notin {1, m} /\ luck = "fault"
        THEN Out(Fault("add_noise"), <<>>, init,
                 pre \o <<"randn", "add_noise">>, draw1 + 1)
        ELSE Out(NoError, noised, init,
                 pre \o <<"randn", "add_noise">>, draw1 + 1)

\* noise_pred.chunk(chunks=2): the first and the second half of the batch
chunk(s) ==
    [uncond |-> SubSeq(s, 1, Len(s) \div 2),
     text |-> SubSeq(s, (Len(s) \div 2) + 1, Len(s))]

\* a variant of the guidance that takes the halves the other way round
guide_swapped(noise_pred, guidance_scale) ==
    [k \in 1..(Len(noise_pred) \div 2) |->
        chunk(noise_pred).text[k]
        + guidance_scale * (chunk(noise_pred).uncond[k] - chunk(noise_pred).text[k])]

\* "perform guidance":
\* noise_pred_uncond + guidance_scale * (noise_pred_text - noise_pred_uncond)
guide(noise_pred, guidance_scale) ==
    [k \in 1..(Len(noise_pred) \div 2) |->
        chunk(noise_pred).uncond[k]
        + guidance_scale * (chunk(noise_pred).text[k] - chunk(noise_pred).uncond[k])]

\* a variant that updates the bar in every iteration after the warm-up
I2I_progress_due_every_iteration(i, n_timesteps, num_warmup_steps, order) ==
    \/ i = n_timesteps - 1
    \/ i + 1 > num_warmup_steps

\* the progress-bar condition of the img2img loop
I2I_progress_due(i, n_timesteps, num_warmup_steps, order) ==
    \/ i = n_timesteps - 1
    \/ (i + 1 > num_warmup_steps /\ (i + 1) % order = 0)

\* a variant that counts iterations from one
callback_due_from_one(callback, i, callback_steps) ==
    callback /\ (i + 1) % callback_steps = 0

\* "if callback is not None and i % callback_steps == 0"
callback_due(callback, i, callback_steps) ==
    callback /\ i % callback_steps = 0

\* --------------------------------------------- consistency: operators
\* a variant of check_inputs that rejects a call with both supplied
CM_check_inputs_both_rejected(num_inference_steps, timesteps, latents, batch_size, img_size, callback_steps) ==
    IF IsNone(num_inference_steps) = IsNone(timesteps)
    THEN [err |-> ValueError("steps_neither"), warned |-> FALSE]
    ELSE IF /\ ~IsNone(latents)
            /\ latents.shape # <<batch_size, 3, img_size, img_size>>
    THEN [err |-> ValueError("latents_shape"), warned |-> FALSE]
    ELSE IF BadCallbackSteps(callback_steps)
    THEN [err |-> ValueError("callback_steps"), warned |-> FALSE]
    ELSE [err |-> NoError, warned |-> FALSE]

\* check_inputs of the consistency pipeline: the exception raised (or
\* NoError) and whether the both-supplied warning was logged
CM_check_inputs(num_inference_steps, timesteps, latents, batch_size, img_size, callback_steps) ==
    LET warned == ~IsNone(num_inference_steps) /\ ~IsNone(timesteps)
    IN  IF IsNone(num_inference_steps) /\ IsNone(timesteps)
        THEN [err |-> ValueError("steps_neither"), warned |-> FALSE]
        ELSE IF /\ ~IsNone(latents)
                /\ latents.shape # <<batch_size, 3, img_size, img_size>>
        THEN [err |-> ValueError("latents_shape"), warned |-> warned]
        ELSE IF BadCallbackSteps(callback_steps)
        THEN [err |-> ValueError("callback_steps"), warned |-> warned]
        ELSE [err |-> NoError, warned |-> warned]

\* a variant that leaves the latents unscaled
scale_by_sigma_skipped(vals, init_noise_sigma) == vals

\* latents = latents * self.scheduler.init_noise_sigma
scale_by_sigma(vals, init_noise_sigma) ==
    [k \in 1..Len(vals) |-> vals[k] * init_noise_sigma]

\* a variant that samples the noise before it looks at the generator list
CM_prepare_latents_sample_first(batch_size, num_channels, height, width, dtype, generator, latents, init_noise_sigma, draw) ==
    LET shape == <<batch_size, num_channels, height, width>>
        fresh == [k \in 1..batch_size |-> Randn(SeedOf(generator, 1), draw, k)]
        made == IF IsNone(latents) THEN <<"randn">> ELSE <<"cast">>
        drawn == IF IsNone(latents) THEN draw + 1 ELSE draw
        vals == IF IsNone(latents) THEN fresh ELSE latents.vals
    IN  IF IsGenList(generator) /\ Len(generator.seeds) # batch_size
        THEN [err |-> ValueError("generator_len"), latents |-> None,
              calls |-> made, draws |-> drawn]
        ELSE [err |-> NoError,
              latents |-> Tensor(shape, dtype, scale_by_sigma(vals, init_noise_sigma)),
              calls |-> made, draws |-> drawn]

\* prepare_latents of the consistency pipeline
CM_prepare_latents(batch_size, num_channels, height, width, dtype, generator, latents, init_noise_sigma, draw) ==
    LET shape == <<batch_size, num_channels, height, width>>
        fresh == [k \in 1..batch_size |-> Randn(SeedOf(generator, k), draw, k)]
    IN  IF IsGenList(generator) /\ Len(generator.seeds) # batch_size
        THEN [err |-> ValueError("generator_len"), latents |-> None,
              calls |-> <<>>, draws |-> draw]
        ELSE IF IsNone(latents)
        THEN [err |-> NoError,
              latents |-> Tensor(shape, dtype,
                                 scale_by_sigma(fresh, init_noise_sigma)),
              calls |-> <<"randn">>, draws |-> draw + 1]
        ELSE [err |-> NoError,
              latents |-> Tensor(latents.shape, dtype,
                                 scale_by_sigma(latents.vals, init_noise_sigma)),
              calls |-> <<"cast">>, draws |-> draw]

\* postprocess_image: the exception raised for an unsupported output_type
postprocess_image(output_type) ==
    IF output_type \notin {"pd", "np", "pil"}
    THEN ValueError("output_type") ELSE NoError

\* a variant in which a given num_inference_steps wins over timesteps
CM_set_timesteps_count_first(timesteps, num_inference_steps) ==
    IF IsNone(num_inference_steps)
    THEN [scheduler |-> explicit_schedule(timesteps.v),
          timesteps |-> SeqV(explicit_schedule(timesteps.v)),
          num_inference_steps |-> IntV(Len(explicit_schedule(timesteps.v)))]
    ELSE [scheduler |-> set_timesteps(num_inference_steps.v, 1, TRUE),
          timesteps |-> SeqV(set_timesteps(num_inference_steps.v, 1, TRUE)),
          num_inference_steps |-> num_inference_steps]

\* "if timesteps is not None: ... else: ...": the scheduler's schedule and
\* the rebound locals timesteps and num_inference_steps
CM_set_timesteps(timesteps, num_inference_steps) ==
    IF ~IsNone(timesteps)
    THEN [scheduler |-> explicit_schedule(timesteps.v),
          timesteps |-> SeqV(explicit_schedule(timesteps.v)),
          num_inference_steps |-> IntV(Len(explicit_schedule(timesteps.v)))]
    ELSE [scheduler |-> set_timesteps(num_inference_steps.v, 1, TRUE),
          timesteps |-> SeqV(set_timesteps(num_inference_steps.v, 1, TRUE)),
          num_inference_steps |-> num_inference_steps]

\* the class labels prepare_class_labels can return: drawn at random from
\* the global generator when the model is class-conditional and none given
ClassLabelChoices(batch_size, class_labels, num_class_embeds) ==
    IF IsNone(num_class_embeds) THEN {<<>>}
    ELSE IF ~IsNone(class_labels) /\ class_labels.tag = "list"
    THEN {class_labels.vals}
    ELSE IF ~IsNone(class_labels) /\ class_labels.tag = "int"
    THEN {<<class_labels.v>>}
    ELSE [1..batch_size -> 0..(num_class_embeds.v - 1)]

\* ------------------------------------------------------------------ state
VARIABLES args, env, pc, err, batch_size, cfg, prompt_embeds, scheduler_timesteps, timesteps, num_inference_steps, latent_timestep, init_latents, latents, latents_dtype, class_labels, i, model_input, model_output, noise_pred, calls, progress, callbacks, warnings, rng, image, has_nsfw_concept, trajectory, run, first

vars == <<args, env, pc, err, batch_size, cfg, prompt_embeds, scheduler_timesteps, timesteps, num_inference_steps, latent_timestep, init_latents, latents, latents_dtype, class_labels, i, model_input, model_output, noise_pred, calls, progress, callbacks, warnings, rng, image, has_nsfw_concept, trajectory, run, first>>


\* ---------------------------------------------------------------- inputs
\* The collaborators a pipeline object was built with.
DefaultEnv ==
    [order |-> 1, full |-> TRUE, has_safety_checker |-> TRUE,
     scaling_factor |-> 2, text_encoder_dtype |-> "float16",
     init_noise_sigma |-> 1, in_channels |-> 3, sample_size |-> 1,
     unet_dtype |-> "float16", num_class_embeds |-> None]

\* image after image_processor.preprocess: n images of the given channels
ImageTensor(n, channels) ==
    Tensor(<<n, channels>>, "float32", [k \in 1..n |-> k])
\* caller-made embeddings of shape (batch, seq)
EmbedsTensor(b, seq, base) ==
    Tensor(<<b, seq>>, "float32", [k \in 1..b |-> base + k])
\* caller-made latents of the consistency pipeline
LatentsTensor(b, c, size) ==
    Tensor(<<b, c, size, size>>, "float32", [k \in 1..b |-> 20 + k])

DefaultI2I ==
    [pipeline |-> "img2img", prompt |-> StrV, image |-> ImageTensor(1, 3),
     strength |-> StrengthDen, num_inference_steps |-> IntV(2),
     guidance_scale |-> 2, negative_prompt |-> None,
     num_images_per_prompt |-> 1, generator |-> None,
     prompt_embeds |-> None, negative_prompt_embeds |-> None,
     output_type |-> "pil", callback |-> FALSE, callback_steps |-> IntV(1),
     batch_size |-> 0, timesteps |-> None, latents |-> None,
     class_labels |-> None]

DefaultCM ==
    [pipeline |-> "consistency", prompt |-> None, image |-> None,
     strength |-> 0, num_inference_steps |-> IntV(1),
     guidance_scale |-> 0, negative_prompt |-> None,
     num_images_per_prompt |-> 0, generator |-> None,
     prompt_embeds |-> None, negative_prompt_embeds |-> None,
     output_type |-> "pil", callback |-> FALSE, callback_steps |-> IntV(1),
     batch_size |-> 1, timesteps |-> None, latents |-> None,
     class_labels |-> None]

Strengths == (0 - 1)..(StrengthDen + 1)
StepCounts == 0..MaxSteps
Orders == 1..MaxOrder
CallbackStepValues ==
    {None, StrV} \cup {IntV(n) : n \in 0..MaxCallbackSteps}
Generators ==
    {None, Generator(1)}
    \cup {GenList([k \in 1..n |-> k]) : n \in 1..MaxGenerators}
Call(a, e) == [args |-> a, env |-> e]

\* img2img: strength, step count, scheduler order, callback stride
I2ITimestepCalls ==
    {Call([DefaultI2I EXCEPT !.strength = s, !.num_inference_steps = IntV(n),
                             !.callback = cb, !.callback_steps = IntV(c)],
          [DefaultEnv EXCEPT !.order = o, !.full = f]) :
        s \in Strengths, n \in StepCounts, cb \in BOOLEAN,
        c \in 1..MaxCallbackSteps, o \in Orders, f \in BOOLEAN}

\* img2img: what check_inputs looks at
I2IValidationCalls ==
    {Call([DefaultI2I EXCEPT !.prompt = p, !.prompt_embeds = pe,
                             !.negative_prompt = np,
                             !.negative_prompt_embeds = ne,
                             !.strength = s, !.callback_steps = c,
                             !.callback = cb, !.guidance_scale = g],
          DefaultEnv) :
        p \in {None, StrV, ListV(2), OtherV},
        pe \in {None, EmbedsTensor(1, 1, 200), EmbedsTensor(2, 1, 200)},
        np \in {None, StrV},
        ne \in {None, EmbedsTensor(1, 1, 300), EmbedsTensor(1, 2, 300)},
        s \in {0 - 1, 2, StrengthDen + 1},
        c \in {None, StrV, IntV(0 - 1), IntV(0), IntV(1)},
        cb \in BOOLEAN, g \in {1, 2}}

\* img2img: what prepare_latents looks at
I2ILatentCalls ==
    {Call([DefaultI2I EXCEPT !.prompt = p, !.image = ImageTensor(n, ch),
                             !.num_images_per_prompt = nipp,
                             !.generator = gen, !.strength = s,
                             !.output_type = ot],
          [DefaultEnv EXCEPT !.has_safety_checker = sc]) :
        p \in {StrV, ListV(2)}, n \in 1..MaxImages, ch \in {3, 4},
        nipp \in 1..MaxImagesPerPrompt, gen \in Generators,
        s \in {0, 2, StrengthDen}, ot \in {"pil", "latent"},
        sc \in BOOLEAN}

\* img2img: classifier-free guidance
I2IGuidanceCalls ==
    {Call([DefaultI2I EXCEPT !.prompt = p, !.guidance_scale = g,
                             !.num_images_per_prompt = nipp,
                             !.negative_prompt = np,
                             !.num_inference_steps = IntV(n)],
          [DefaultEnv EXCEPT !.order = o]) :
        p \in {StrV, ListV(2)}, g \in 0..MaxGuidance,
        nipp \in 1..MaxImagesPerPrompt, np \in {None, StrV, ListV(2)},
        n \in 1..2, o \in Orders}

\* consistency: everything check_inputs, prepare_latents and the loop read
CMCalls ==
    {Call([DefaultCM EXCEPT !.batch_size = b, !.num_inference_steps = n,
                            !.timesteps = ts, !.latents = lat,
                            !.generator = gen, !.callback = cb,
                            !.callback_steps = c, !.output_type = ot],
          [DefaultEnv EXCEPT !.init_noise_sigma = sg, !.in_channels = ic]) :
        b \in 1..2,
        n \in {None} \cup {IntV(k) : k \in 1..MaxSteps},
        ts \in {None, SeqV(<<22, 0>>)},
        lat \in {None, LatentsTensor(1, 3, 1), LatentsTensor(2, 3, 1),
                 LatentsTensor(1, 4, 1)},
        gen \in {None, GenList(<<1>>), GenList(<<1, 2>>)},
        cb \in BOOLEAN, c \in {IntV(k) : k \in 1..2},
        ot \in {"pil", "bad"}, sg \in 1..MaxSigma, ic \in {3, 4}}

\* img2img: the output formats, with and without safety checker
I2IOutputCalls ==
    {Call([DefaultI2I EXCEPT !.output_type = ot, !.num_inference_steps = IntV(1)],
          [DefaultEnv EXCEPT !.has_safety_checker = sc]) :
        ot \in {"pil", "np", "pd", "latent"}, sc \in BOOLEAN}

\* consistency: what check_inputs looks at
CMValidationCalls ==
    {Call([DefaultCM EXCEPT !.num_inference_steps = n, !.timesteps = ts,
                            !.latents = lat, !.callback = cb,
                            !.callback_steps = c],
          [DefaultEnv EXCEPT !.in_channels = ic]) :
        n \in {None, IntV(1)}, ts \in {None, SeqV(<<22, 0>>)},
        lat \in {None, LatentsTensor(1, 3, 1), LatentsTensor(1, 4, 1),
                 LatentsTensor(1, 3, 2)},
        cb \in BOOLEAN, c \in CallbackStepValues \cup {IntV(0 - 1)},
        ic \in {3, 4}}

Calls ==
    I2ITimestepCalls \cup I2IValidationCalls \cup I2ILatentCalls
    \cup I2IGuidanceCalls \cup I2IOutputCalls \cup CMCalls
    \cup CMValidationCalls

InitFrom(C) ==
    /\ \E c \in C : args = c.args /\ env = c.env
    /\ pc = "check_inputs"
    /\ err = NoError
    /\ batch_size = args.batch_size
    /\ cfg = FALSE
    /\ prompt_embeds = <<>>
    /\ scheduler_timesteps = <<>>
    /\ timesteps = args.timesteps
    /\ num_inference_steps = args.num_inference_steps
    /\ latent_timestep = <<>>
    /\ init_latents = <<>>
    /\ latents = <<>>
    /\ latents_dtype = "float32"
    /\ class_labels = <<>>
    /\ i = 0
    /\ model_input = <<>>
    /\ model_output = <<>>
    /\ noise_pred = <<>>
    /\ calls = <<>>
    /\ progress = 0
    /\ callbacks = <<>>
    /\ warnings = 0
    /\ rng = 0
    /\ image = None
    /\ has_nsfw_concept = None
    /\ trajectory = <<>>
    /\ run = 1
    /\ first = None

Init == InitFrom(Calls)

\* ---------------------------------------------------------------- actions
IsI2I == args.pipeline = "img2img"
IsCM == args.pipeline = "consistency"
Outcome == {"value", "fault"}
\* a variant of the loop that leaves out the last timestep
LoopPc_skip_last(k, ts) == IF k + 1 < Len(ts) THEN "unet" ELSE "postprocess"

\* for i, t in enumerate(timesteps): the next position of the loop
LoopPc(k, ts) == IF k < Len(ts) THEN "unet" ELSE "postprocess"

\* "1. Check inputs" and "2. Define call parameters"
I2ICheckInputs ==
    /\ IsI2I /\ pc = "check_inputs"
    /\ LET e == I2I_check_inputs(args.prompt, args.strength, args.callback_steps, args.negative_prompt, args.prompt_embeds, args.negative_prompt_embeds)
       IN  IF e # NoError
           THEN /\ pc' = "raised" /\ err' = e
                /\ UNCHANGED <<batch_size, cfg>>
           ELSE /\ pc' = "encode_prompt" /\ err' = err
                /\ batch_size' = I2I_batch_size(args.prompt, args.prompt_embeds)
                /\ cfg' = do_classifier_free_guidance(args.guidance_scale)
    /\ UNCHANGED <<args, env, prompt_embeds, scheduler_timesteps, timesteps, num_inference_steps, latent_timestep, init_latents, latents, latents_dtype, class_labels, i, model_input, model_output, noise_pred, calls, progress, callbacks, warnings, rng, image, has_nsfw_concept, trajectory, run, first>>

\* "3. Encode input prompt"
I2IEncodePrompt ==
    /\ IsI2I /\ pc = "encode_prompt"
    /\ LET r == encode_prompt(args.prompt, args.num_images_per_prompt, cfg, args.negative_prompt, args.prompt_embeds, args.negative_prompt_embeds)
       IN  /\ calls' = calls \o r.calls
           /\ IF r.err # NoError
              THEN pc' = "raised" /\ err' = r.err /\ UNCHANGED prompt_embeds
              ELSE pc' = "set_timesteps" /\ err' = err /\ prompt_embeds' = r.embeds
    /\ UNCHANGED <<args, env, batch_size, cfg, scheduler_timesteps, timesteps, num_inference_steps, latent_timestep, init_latents, latents, latents_dtype, class_labels, i, model_input, model_output, noise_pred, progress, callbacks, warnings, rng, image, has_nsfw_concept, trajectory, run, first>>

\* "4. Preprocess image" (no state of the call) and "5. set timesteps"
I2ISetTimesteps ==
    /\ IsI2I /\ pc = "set_timesteps"
    /\ LET sched == set_timesteps(num_inference_steps.v, env.order, env.full)
           r == get_timesteps(sched, env.order, num_inference_steps.v, args.strength)
       IN  /\ scheduler_timesteps' = sched
           /\ timesteps' = SeqV(r.timesteps)
           /\ num_inference_steps' = IntV(r.num_inference_steps)
           \* timesteps[:1].tile([batch_size * num_images_per_prompt])
           /\ latent_timestep' = Repeat(SliceTo(r.timesteps, 1), batch_size * args.num_images_per_prompt)
    /\ calls' = Append(calls, "set_timesteps")
    /\ pc' = "prepare_latents"
    /\ UNCHANGED <<args, env, err, batch_size, cfg, prompt_embeds, init_latents, latents, latents_dtype, class_labels, i, model_input, model_output, noise_pred, progress, callbacks, warnings, rng, image, has_nsfw_concept, trajectory, run, first>>

\* "6. Prepare latent variables" and "7. Prepare extra step kwargs"
I2IPrepareLatents ==
    /\ IsI2I /\ pc = "prepare_latents"
    /\ \E luck \in Luck :
        LET r == I2I_prepare_latents(args.image, latent_timestep, batch_size, args.num_images_per_prompt, args.generator, env.scaling_factor, rng, luck)
        IN  /\ calls' = calls \o r.calls
            /\ rng' = r.draws
            /\ init_latents' = r.init_latents
            /\ IF r.err # NoError
               THEN pc' = "raised" /\ err' = r.err /\ UNCHANGED <<latents, latents_dtype>>
               ELSE /\ pc' = LoopPc(0, timesteps.v) /\ err' = err
                    /\ latents' = r.latents
                    /\ latents_dtype' = env.text_encoder_dtype
    /\ trajectory' = IF pc' = "raised" THEN trajectory ELSE Append(trajectory, latents')
    /\ UNCHANGED <<args, env, batch_size, cfg, prompt_embeds, scheduler_timesteps, timesteps, num_inference_steps, latent_timestep, class_labels, i, model_input, model_output, noise_pred, progress, callbacks, warnings, image, has_nsfw_concept, run, first>>

\* a variant of the first half that keeps the scaled input as the latent
I2IUNet_scaled_in_place ==
    /\ IsI2I /\ pc = "unet"
    /\ \E outcome \in Outcome :
        LET t == timesteps.v[i + 1]
            latent_model_input == IF cfg THEN latents \o latents ELSE latents
            scaled == [k \in 1..Len(latent_model_input) |-> ScaleElem(latent_model_input[k], t)]
            out == [k \in 1..Len(scaled) |-> UNetElem(scaled[k], t, Broadcast(prompt_embeds, k))]
        IN  /\ model_input' = scaled
            /\ latents' = SubSeq(scaled, 1, Len(latents))
            /\ calls' = Append(calls, "unet")
            /\ IF outcome = "fault"
               THEN pc' = "raised" /\ err' = Fault("unet") /\ UNCHANGED <<model_output, noise_pred>>
               ELSE /\ pc' = "step" /\ err' = err
                    /\ model_output' = out
                    /\ noise_pred' = IF cfg THEN guide(out, args.guidance_scale) ELSE out
    /\ UNCHANGED <<args, env, batch_size, cfg, prompt_embeds, scheduler_timesteps, timesteps, num_inference_steps, latent_timestep, init_latents, latents_dtype, class_labels, i, progress, callbacks, warnings, rng, image, has_nsfw_concept, trajectory, run, first>>

\* one iteration, first half: expand, scale, predict, guide
I2IUNet ==
    /\ IsI2I /\ pc = "unet"
    /\ \E outcome \in Outcome :
        LET t == timesteps.v[i + 1]
            latent_model_input == IF cfg THEN latents \o latents ELSE latents
            scaled == [k \in 1..Len(latent_model_input) |-> ScaleElem(latent_model_input[k], t)]
            out == [k \in 1..Len(scaled) |-> UNetElem(scaled[k], t, Broadcast(prompt_embeds, k))]
        IN  /\ model_input' = scaled
            /\ calls' = Append(calls, "unet")
            /\ IF outcome = "fault"
               THEN pc' = "raised" /\ err' = Fault("unet") /\ UNCHANGED <<model_output, noise_pred>>
               ELSE /\ pc' = "step" /\ err' = err
                    /\ model_output' = out
                    /\ noise_pred' = IF cfg THEN guide(out, args.guidance_scale) ELSE out
    /\ UNCHANGED <<args, env, batch_size, cfg, prompt_embeds, scheduler_timesteps, timesteps, num_inference_steps, latent_timestep, init_latents, latents, latents_dtype, class_labels, i, progress, callbacks, warnings, rng, image, has_nsfw_concept, trajectory, run, first>>

\* a variant of the second half that goes on after a fault of the step
I2IStep_fault_swallowed ==
    /\ IsI2I /\ pc = "step"
    /\ \E outcome \in Outcome :
        LET t == timesteps.v[i + 1]
            num_warmup_steps == Len(timesteps.v) - num_inference_steps.v * env.order
            due == I2I_progress_due(i, Len(timesteps.v), num_warmup_steps, env.order)
            stepped == [k \in 1..Len(latents) |-> StepElem(noise_pred[k], t, latents[k])]
        IN  /\ calls' = Append(calls, "step")
            /\ latents' = IF outcome = "fault" THEN latents ELSE stepped
            /\ err' = IF outcome = "fault" THEN Fault("step") ELSE err
            /\ progress' = IF due THEN progress + 1 ELSE progress
            /\ callbacks' = IF due /\ callback_due(args.callback, i, args.callback_steps.v) THEN Append(callbacks, i) ELSE callbacks
            /\ i' = i + 1
            /\ pc' = LoopPc(i + 1, timesteps.v)
    /\ trajectory' = Append(trajectory, latents')
    /\ UNCHANGED <<args, env, batch_size, cfg, prompt_embeds, scheduler_timesteps, timesteps, num_inference_steps, latent_timestep, init_latents, latents_dtype, class_labels, model_input, model_output, noise_pred, warnings, rng, image, has_nsfw_concept, run, first>>

\* one iteration, second half: scheduler step, progress bar, callback
I2IStep ==
    /\ IsI2I /\ pc = "step"
    /\ \E outcome \in Outcome :
        LET t == timesteps.v[i + 1]
            num_warmup_steps == Len(timesteps.v) - num_inference_steps.v * env.order
            due == I2I_progress_due(i, Len(timesteps.v), num_warmup_steps, env.order)
            stepped == [k \in 1..Len(latents) |-> StepElem(noise_pred[k], t, latents[k])]
        IN  /\ calls' = Append(calls, "step")
            /\ IF outcome = "fault"
               THEN /\ pc' = "raised" /\ err' = Fault("step")
                    /\ UNCHANGED <<latents, progress, callbacks, i>>
               ELSE /\ latents' = stepped
                    /\ progress' = IF due THEN progress + 1 ELSE progress
                    /\ callbacks' = IF due /\ callback_due(args.callback, i, args.callback_steps.v) THEN Append(callbacks, i) ELSE callbacks
                    /\ i' = i + 1
                    /\ pc' = LoopPc(i + 1, timesteps.v) /\ err' = err
    /\ trajectory' = IF pc' = "raised" THEN trajectory ELSE Append(trajectory, latents')
    /\ UNCHANGED <<args, env, batch_size, cfg, prompt_embeds, scheduler_timesteps, timesteps, num_inference_steps, latent_timestep, init_latents, latents_dtype, class_labels, model_input, model_output, noise_pred, warnings, rng, image, has_nsfw_concept, run, first>>

\* vae.decode(latents / scaling_factor) and the safety checker (stand-ins)
DecodeElem(x, scaling_factor) == Mix(9 * x + scaling_factor)
SafetyElem(x, flagged) == IF flagged THEN 0 ELSE x
Flags(f) == [tag |-> "flags", v |-> f]
Image(vals, do_denormalize, output_type) ==
    [tag |-> "image", vals |-> vals, do_denormalize |-> do_denormalize,
     output_type |-> output_type]

\* a variant that denormalizes every image
do_denormalize_all(has_nsfw, n) == [k \in 1..n |-> TRUE]

\* do_denormalize: [True] * image.shape[0] without flags, else the negated flags
do_denormalize(has_nsfw, n) ==
    IF IsNone(has_nsfw) THEN [k \in 1..n |-> TRUE]
    ELSE [k \in 1..Len(has_nsfw.v) |-> ~has_nsfw.v[k]]

\* a variant that decodes whatever the output format
needs_decode_always(output_type) == TRUE

\* if not output_type == 'latent'
needs_decode(output_type) == output_type # "latent"

\* decode, safety check and image_processor.postprocess
I2IPostprocess ==
    /\ IsI2I /\ pc = "postprocess"
    /\ \E outcome \in Outcome, flags \in [1..Len(latents) -> BOOLEAN] :
        LET decoded == [k \in 1..Len(latents) |-> DecodeElem(latents[k], env.scaling_factor)]
            checked == [k \in 1..Len(decoded) |-> SafetyElem(decoded[k], flags[k])]
        IN  IF needs_decode(args.output_type)
            THEN IF outcome = "fault"
                 THEN /\ pc' = "raised" /\ err' = Fault("vae_decode")
                      /\ calls' = Append(calls, "vae_decode")
                      /\ UNCHANGED <<image, has_nsfw_concept>>
                 ELSE IF env.has_safety_checker
                 THEN /\ calls' = calls \o <<"vae_decode", "safety_checker">>
                      /\ has_nsfw_concept' = Flags(flags)
                      /\ image' = Image(checked, do_denormalize(Flags(flags), Len(checked)), args.output_type)
                      /\ pc' = "returned" /\ err' = err
                 ELSE /\ calls' = Append(calls, "vae_decode")
                      /\ has_nsfw_concept' = None
                      /\ image' = Image(decoded, do_denormalize(None, Len(decoded)), args.output_type)
                      /\ pc' = "returned" /\ err' = err
            ELSE /\ calls' = calls
                 /\ has_nsfw_concept' = None
                 /\ image' = Image(latents, do_denormalize(None, Len(latents)), args.output_type)
                 /\ pc' = "returned" /\ err' = err
    /\ UNCHANGED <<args, env, batch_size, cfg, prompt_embeds, scheduler_timesteps, timesteps, num_inference_steps, latent_timestep, init_latents, latents, latents_dtype, class_labels, i, model_input, model_output, noise_pred, progress, callbacks, warnings, rng, trajectory, run, first>>

\* consistency: check_inputs
CMCheckInputs ==
    /\ IsCM /\ pc = "check_inputs"
    /\ LET r == CM_check_inputs(num_inference_steps, timesteps, args.latents, batch_size, env.sample_size, args.callback_steps)
       IN  /\ warnings' = IF r.warned THEN warnings + 1 ELSE warnings
           /\ IF r.err # NoError
              THEN pc' = "raised" /\ err' = r.err
              ELSE pc' = "prepare_latents" /\ err' = err
    /\ UNCHANGED <<args, env, batch_size, cfg, prompt_embeds, scheduler_timesteps, timesteps, num_inference_steps, latent_timestep, init_latents, latents, latents_dtype, class_labels, i, model_input, model_output, noise_pred, calls, progress, callbacks, rng, image, has_nsfw_concept, trajectory, run, first>>

\* consistency: prepare_latents
CMPrepareLatents ==
    /\ IsCM /\ pc = "prepare_latents"
    /\ LET r == CM_prepare_latents(batch_size, env.in_channels, env.sample_size, env.sample_size, env.unet_dtype, args.generator, args.latents, env.init_noise_sigma, rng)
       IN  /\ calls' = calls \o r.calls
           /\ rng' = r.draws
           /\ IF r.err # NoError
              THEN pc' = "raised" /\ err' = r.err /\ UNCHANGED <<latents, latents_dtype>>
              ELSE /\ pc' = "set_timesteps" /\ err' = err
                   /\ latents' = r.latents.vals
                   /\ latents_dtype' = r.latents.dtype
    /\ trajectory' = IF pc' = "raised" THEN trajectory ELSE Append(trajectory, latents')
    /\ UNCHANGED <<args, env, batch_size, cfg, prompt_embeds, scheduler_timesteps, timesteps, num_inference_steps, latent_timestep, init_latents, class_labels, i, model_input, model_output, noise_pred, progress, callbacks, warnings, image, has_nsfw_concept, run, first>>

\* consistency: prepare_class_labels and the scheduler's schedule
CMSetTimesteps ==
    /\ IsCM /\ pc = "set_timesteps"
    /\ \E labels \in ClassLabelChoices(batch_size, args.class_labels, env.num_class_embeds) :
        class_labels' = labels
    /\ scheduler_timesteps' = CM_set_timesteps(timesteps, num_inference_steps).scheduler
    /\ timesteps' = CM_set_timesteps(timesteps, num_inference_steps).timesteps
    /\ num_inference_steps' = CM_set_timesteps(timesteps, num_inference_steps).num_inference_steps
    /\ calls' = Append(calls, "set_timesteps")
    /\ pc' = LoopPc(0, timesteps'.v)
    /\ UNCHANGED <<args, env, err, batch_size, cfg, prompt_embeds, latent_timestep, init_latents, latents, latents_dtype, i, model_input, model_output, noise_pred, progress, callbacks, warnings, rng, image, has_nsfw_concept, trajectory, run, first>>

\* consistency, one iteration, first half: scale and predict
CMUNet ==
    /\ IsCM /\ pc = "unet"
    /\ \E outcome \in Outcome :
        LET t == timesteps.v[i + 1]
            scaled_sample == [k \in 1..Len(latents) |-> ScaleElem(latents[k], t)]
            out == [k \in 1..Len(scaled_sample) |-> UNetElem(scaled_sample[k], t, IF class_labels = <<>> THEN 0 ELSE Broadcast(class_labels, k))]
        IN  /\ model_input' = scaled_sample
            /\ calls' = Append(calls, "unet")
            /\ IF outcome = "fault"
               THEN pc' = "raised" /\ err' = Fault("unet") /\ UNCHANGED <<model_output, noise_pred>>
               ELSE /\ pc' = "step" /\ err' = err
                    /\ model_output' = out
                    /\ noise_pred' = out
    /\ UNCHANGED <<args, env, batch_size, cfg, prompt_embeds, scheduler_timesteps, timesteps, num_inference_steps, latent_timestep, init_latents, latents, latents_dtype, class_labels, i, progress, callbacks, warnings, rng, image, has_nsfw_concept, trajectory, run, first>>

\* consistency, one iteration, second half: step, progress bar, callback
CMStep ==
    /\ IsCM /\ pc = "step"
    /\ \E outcome \in Outcome :
        LET t == timesteps.v[i + 1]
            stepped == [k \in 1..Len(latents) |-> StepElem(noise_pred[k], t, latents[k]) + Randn(SeedOf(args.generator, k), rng, k)]
        IN  /\ calls' = Append(calls, "step")
            /\ IF outcome = "fault"
               THEN /\ pc' = "raised" /\ err' = Fault("step")
                    /\ UNCHANGED <<latents, progress, callbacks, i, rng>>
               ELSE /\ latents' = stepped
                    /\ rng' = rng + 1
                    /\ progress' = progress + 1
                    /\ callbacks' = IF callback_due(args.callback, i, args.callback_steps.v) THEN Append(callbacks, i) ELSE callbacks
                    /\ i' = i + 1
                    /\ pc' = LoopPc(i + 1, timesteps.v) /\ err' = err
    /\ trajectory' = IF pc' = "raised" THEN trajectory ELSE Append(trajectory, latents')
    /\ UNCHANGED <<args, env, batch_size, cfg, prompt_embeds, scheduler_timesteps, timesteps, num_inference_steps, latent_timestep, init_latents, latents_dtype, class_labels, model_input, model_output, noise_pred, warnings, image, has_nsfw_concept, run, first>>

\* consistency: postprocess_image
CMPostprocess ==
    /\ IsCM /\ pc = "postprocess"
    /\ IF postprocess_image(args.output_type) # NoError
       THEN pc' = "raised" /\ err' = postprocess_image(args.output_type) /\ UNCHANGED image
       ELSE /\ pc' = "returned" /\ err' = err
            /\ image' = Image(latents, [k \in 1..Len(latents) |-> TRUE], args.output_type)
    /\ UNCHANGED <<args, env, batch_size, cfg, prompt_embeds, scheduler_timesteps, timesteps, num_inference_steps, latent_timestep, init_latents, latents, latents_dtype, class_labels, i, model_input, model_output, noise_pred, calls, progress, callbacks, warnings, rng, has_nsfw_concept, trajectory, run, first>>

Next ==
    \/ I2ICheckInputs
    \/ I2IEncodePrompt
    \/ I2ISetTimesteps
    \/ I2IPrepareLatents
    \/ I2IUNet
    \/ I2IStep
    \/ I2IPostprocess
    \/ CMCheckInputs
    \/ CMPrepareLatents
    \/ CMSetTimesteps
    \/ CMUNet
    \/ CMStep
    \/ CMPostprocess

Spec == Init /\ [][Next]_vars

\* ------------------------------------------------- two invocations in a row
\* Calls made with a seeded generator (or a list of them), twice over.
TwiceCalls ==
    {Call([DefaultI2I EXCEPT !.generator = gen, !.strength = s,
                             !.guidance_scale = g],
          DefaultEnv) :
        gen \in {Generator(1), GenList(<<2>>)}, s \in {2, StrengthDen},
        g \in {1, 2}}
    \cup
    {Call([DefaultCM EXCEPT !.generator = gen, !.class_labels = cl,
                            !.num_inference_steps = IntV(n),
                            !.latents = lat],
          [DefaultEnv EXCEPT !.num_class_embeds = nce]) :
        gen \in {Generator(1), GenList(<<2>>)},
        cl \in {None, LabelList(<<1>>)}, n \in 1..2,
        lat \in {None, LatentsTensor(1, 3, 1)},
        nce \in {None, IntV(2)}}

InitTwice == InitFrom(TwiceCalls)

\* The caller invokes the pipeline again with the same arguments and the
\* generator seeded as before; what the first invocation did is kept.
Reinvoke ==
    /\ run = 1 /\ pc \in {"returned", "raised"}
    /\ first' = [trajectory |-> trajectory, calls |-> calls, pc |-> pc]
    /\ run' = 2
    /\ pc' = "check_inputs"
    /\ err' = NoError
    /\ batch_size' = args.batch_size
    /\ cfg' = FALSE
    /\ prompt_embeds' = <<>>
    /\ scheduler_timesteps' = <<>>
    /\ timesteps' = args.timesteps
    /\ num_inference_steps' = args.num_inference_steps
    /\ latent_timestep' = <<>>
    /\ init_latents' = <<>>
    /\ latents' = <<>>
    /\ latents_dtype' = "float32"
    /\ class_labels' = <<>>
    /\ i' = 0
    /\ model_input' = <<>>
    /\ model_output' = <<>>
    /\ noise_pred' = <<>>
    /\ calls' = <<>>
    /\ progress' = 0
    /\ callbacks' = <<>>
    /\ warnings' = 0
    /\ rng' = 0
    /\ image' = None
    /\ has_nsfw_concept' = None
    /\ trajectory' = <<>>
    /\ UNCHANGED <<args, env>>

NextTwice ==
    \/ I2ICheckInputs
    \/ I2IEncodePrompt
    \/ I2ISetTimesteps
    \/ I2IPrepareLatents
    \/ I2IUNet
    \/ I2IStep
    \/ I2IPostprocess
    \/ CMCheckInputs
    \/ CMPrepareLatents
    \/ CMSetTimesteps
    \/ CMUNet
    \/ CMStep
    \/ CMPostprocess
    \/ Reinvoke

SpecTwice == InitTwice /\ [][NextTwice]_vars

\* ================================================================ claims
\* what the caller passed
N0 == args.num_inference_steps.v
\* the errors check_inputs raises, by pipeline
I2ICheckErrors == {"strength", "callback_steps", "prompt_both", "prompt_neither", "prompt_type", "negative_both", "embeds_shape"}
CMCheckErrors == {"steps_neither", "latents_shape", "callback_steps"}
\* get_timesteps has returned
I2ITimestepsSet == IsI2I /\ "set_timesteps" \in Range(calls)
\* the loop has run to its end
LoopDone == pc \in {"postprocess", "returned"} \/ (pc = "raised" /\ err.at \in {"vae_decode", "output_type"})
\* the number of steps kept and the start index, with truncation (the code)
KeptTrunc == Min2((N0 * args.strength) \div StrengthDen, N0)
StartTrunc == Max2(N0 - KeptTrunc, 0)
\* the same with rounding (the specification's formula)
KeptRound == Min2(PyRound(N0 * args.strength, StrengthDen), N0)
StartRound == Max2(N0 - KeptRound, 0)

\* C1 as stated: the step count kept is min(round(steps * strength), steps)
\* and the start index is max(steps - kept, 0).
C1_Original ==
    I2ITimestepsSet =>
        /\ num_inference_steps.v = KeptRound
        /\ Len(timesteps.v) = Max2(Len(scheduler_timesteps) - StartRound * env.order, 0)

\* C1 (amended): the step count kept is
\* min(int(num_inference_steps * strength), num_inference_steps), the
\* product truncated toward zero and not rounded, and the start index is
\* max(num_inference_steps - kept, 0).
C1_KeptStepsTruncate ==
    I2ITimestepsSet =>
        /\ num_inference_steps.v = KeptTrunc
        /\ N0 - num_inference_steps.v = StartTrunc
        /\ Len(timesteps.v) = Max2(Len(scheduler_timesteps) - StartTrunc * env.order, 0)

\* steps * strength has a fractional part of one half or more
C1_Witness ==
    /\ I2ITimestepsSet
    /\ 2 * ((N0 * args.strength) % StrengthDen) >= StrengthDen
    /\ num_inference_steps.v < KeptRound

\* the iterations on which the code calls the callback back
CallbackIterations ==
    {k \in 0..(Len(timesteps.v) - 1) :
        /\ k % args.callback_steps.v = 0
        /\ \/ IsCM
           \/ k = Len(timesteps.v) - 1
           \/ /\ k + 1 > Len(timesteps.v) - num_inference_steps.v * env.order
              /\ (k + 1) % env.order = 0}

C3Errors == {"strength", "prompt_both", "prompt_neither", "embeds_shape", "generator_len", "image_batch", "latents_shape", "output_type"}
\* calls of a model collaborator: text encoder, VAE encode, denoising model
ModelCalls == Count(calls, "text_encoder") + Count(calls, "vae_encode") + Count(calls, "unet")
\* the text-encoder calls _encode_prompt makes
TextEncoderCalls ==
    (IF IsNone(args.prompt_embeds) THEN 1 ELSE 0)
    + (IF args.guidance_scale > 1 /\ IsNone(args.negative_prompt_embeds) THEN 1 ELSE 0)
\* the VAE encode calls prepare_latents makes before the batch check
EncodeCalls ==
    IF args.image.shape[2] = 4 THEN 0
    ELSE IF IsGenList(args.generator) THEN batch_size * args.num_images_per_prompt
    ELSE 1

C4_Original ==
    (IsCM /\ pc = "set_timesteps" /\ ~IsNone(args.latents)) =>
        /\ latents = args.latents.vals
        /\ latents_dtype = env.unet_dtype
        /\ Count(calls, "randn") = 0

\* C4 (amended): supplied latents are dtype-cast and then multiplied by the
\* scheduler's init_noise_sigma, exactly as freshly sampled noise is; no
\* noise is sampled or added to them.
C4_SuppliedLatentsScaled ==
    (IsCM /\ pc = "set_timesteps") =>
        IF IsNone(args.latents)
        THEN /\ calls = <<"randn">>
             /\ latents = [k \in 1..batch_size |-> Randn(SeedOf(args.generator, k), 0, k) * env.init_noise_sigma]
        ELSE /\ calls = <<"cast">>
             /\ rng = 0
             /\ latents_dtype = env.unet_dtype
             /\ latents = [k \in 1..Len(args.latents.vals) |-> args.latents.vals[k] * env.init_noise_sigma]

\* supplied latents under a scheduler whose init_noise_sigma is not 1
C4_Witness ==
    /\ IsCM /\ pc = "set_timesteps" /\ ~IsNone(args.latents)
    /\ env.init_noise_sigma > 1
    /\ latents # args.latents.vals

\* prepare_latents has been run
PrepareLatentsRan ==
    \/ IsI2I /\ I2ITimestepsSet /\ pc # "prepare_latents"
    \/ IsCM /\ pc \notin {"check_inputs", "prepare_latents"} /\ ~(pc = "raised" /\ err.at \in CMCheckErrors)
\* the generator list and the effective batch size disagree
GeneratorMismatch ==
    /\ IsGenList(args.generator)
    /\ Len(args.generator.seeds) # (IF IsI2I THEN batch_size * args.num_images_per_prompt ELSE batch_size)

\* C5: a generator list whose length differs from the effective batch size
\* always makes latent preparation fail with ValueError, before any latent
\* is encoded or sampled, whatever the other inputs are.
C5_GeneratorMismatchRaises ==
    (PrepareLatentsRan /\ GeneratorMismatch) =>
        /\ pc = "raised" /\ err = ValueError("generator_len")
        /\ Count(calls, "vae_encode") = 0
        /\ Count(calls, "randn") = 0

\* C6: with strength 0 no step is kept, the loop runs zero iterations and
\* the latent handed to decoding is the encoded input image latent.
C6_ZeroStrengthIdentity ==
    (IsI2I /\ args.strength = 0 /\ pc = "postprocess") =>
        /\ num_inference_steps.v = 0
        /\ N0 - num_inference_steps.v = N0
        /\ timesteps.v = <<>>
        /\ Count(calls, "unet") = 0
        /\ Count(calls, "step") = 0
        /\ latents = init_latents

\* C7: the timesteps the img2img loop consumes are the tail of the
\* scheduler's schedule from start_index * order on; they are
\* (num_inference_steps - start_index) * order many when the schedule has
\* num_inference_steps * order entries; the step count returned with them
\* is num_inference_steps - start_index.
C7_TimestepTail ==
    I2ITimestepsSet =>
        /\ Len(timesteps.v) = Max2(Len(scheduler_timesteps) - StartTrunc * env.order, 0)
        /\ \A j \in 1..Len(timesteps.v) :
              timesteps.v[j] = scheduler_timesteps[StartTrunc * env.order + j]
        /\ (Len(scheduler_timesteps) = N0 * env.order)
              => Len(timesteps.v) = (N0 - StartTrunc) * env.order
        /\ num_inference_steps.v = N0 - StartTrunc

\* a schedule of order 2 cut at a start index strictly inside it
C7_Witness ==
    /\ I2ITimestepsSet /\ env.order = 2
    /\ StartTrunc > 0 /\ StartTrunc < N0
    /\ Len(scheduler_timesteps) = N0 * env.order
    /\ Len(timesteps.v) = (N0 - StartTrunc) * env.order

\* the positive and the negative prompt embedding of the call, one entry
\* per generated image
PositiveEmbeds ==
    TileEach(IF IsNone(args.prompt_embeds)
             THEN [k \in 1..batch_size |-> TextEncoderElem(PromptToken(k))]
             ELSE args.prompt_embeds.vals,
             args.num_images_per_prompt)
NegativeEmbeds ==
    TileEach(IF ~IsNone(args.negative_prompt_embeds) THEN args.negative_prompt_embeds.vals
             ELSE IF IsNone(args.negative_prompt) THEN [k \in 1..batch_size |-> TextEncoderElem(EmptyToken)]
             ELSE IF args.negative_prompt.tag = "str" THEN <<TextEncoderElem(NegativeToken(1))>>
             ELSE [k \in 1..args.negative_prompt.len |-> TextEncoderElem(NegativeToken(k))],
             args.num_images_per_prompt)
\* the timestep of the running iteration
LoopT == timesteps.v[i + 1]

\* C8: with guidance the prediction handed to the scheduler step is
\* uncond + guidance_scale * (cond - uncond), uncond the first and cond the
\* second half of the model's output; with guidance_scale = 1 it is the
\* conditional prediction.
C8_GuidanceRecombination ==
    (IsI2I /\ pc = "step") =>
        /\ Len(noise_pred) = Len(latents)
        /\ args.guidance_scale > 1 =>
              /\ Len(model_output) = 2 * Len(latents)
              /\ \A k \in 1..Len(latents) :
                    noise_pred[k] = model_output[k] + args.guidance_scale * (model_output[Len(latents) + k] - model_output[k])
        /\ args.guidance_scale = 1 =>
              \A k \in 1..Len(latents) :
                    noise_pred[k] = UNetElem(ScaleElem(latents[k], LoopT), LoopT, Broadcast(PositiveEmbeds, k))

\* a guided step whose two halves differ
C8_Witness ==
    /\ IsI2I /\ pc = "step" /\ args.guidance_scale = 2
    /\ Len(model_output) = 2 * Len(latents)
    /\ model_output[1] # model_output[Len(latents) + 1]
    /\ noise_pred[1] # model_output[Len(latents) + 1]

\* the prompt has been encoded
PromptEncoded ==
    /\ IsI2I /\ pc \notin {"check_inputs", "encode_prompt"}
    /\ ~(pc = "raised" /\ err.at \in I2ICheckErrors \cup {"negative_prompt_type", "negative_prompt_batch", "concat_embeds"})

C10_PromptExclusive ==
    (IsI2I /\ pc # "check_inputs") =>
        LET rejected == pc = "raised" /\ err.type = "ValueError" /\ err.at \in I2ICheckErrors
        IN  /\ (~IsNone(args.prompt) /\ ~IsNone(args.prompt_embeds)) => rejected
            /\ (IsNone(args.prompt) /\ IsNone(args.prompt_embeds)) => rejected
            /\ ~rejected => (IsNone(args.prompt) # IsNone(args.prompt_embeds))

\* a call with both prompt and prompt_embeds, rejected for that
C10_Witness ==
    /\ IsI2I /\ pc = "raised" /\ err = ValueError("prompt_both")
    /\ ~IsNone(args.prompt) /\ ~IsNone(args.prompt_embeds)

\* the consistency pipeline has configured the scheduler
CMTimestepsSet == IsCM /\ "set_timesteps" \in Range(calls)
\* which of num_inference_steps and timesteps the caller supplied
StepsGiven == ~IsNone(args.num_inference_steps)
TimestepsGiven == ~IsNone(args.timesteps)

\* C11: in the consistency pipeline, neither num_inference_steps nor
\* timesteps fails with ValueError; both is no failure but one logged
\* warning, and the schedule used is the one of the explicit timesteps: the
\* step count is the length of the explicit list, whatever
\* num_inference_steps was.
C11_StepsOrTimesteps ==
    (IsCM /\ pc # "check_inputs") =>
        /\ (~StepsGiven /\ ~TimestepsGiven) =>
              /\ pc = "raised" /\ err = ValueError("steps_neither")
              /\ warnings = 0
        /\ (StepsGiven /\ TimestepsGiven) =>
              /\ warnings = 1
              /\ err # ValueError("steps_neither")
              /\ CMTimestepsSet =>
                    /\ scheduler_timesteps = explicit_schedule(args.timesteps.v)
                    /\ timesteps.v = scheduler_timesteps
                    /\ num_inference_steps.v = Len(args.timesteps.v)
        /\ (StepsGiven # TimestepsGiven) => warnings = 0

\* a call with both, whose step count differs from the length of the
\* explicit list, run to its end over the explicit list
C11_Witness ==
    /\ IsCM /\ pc = "returned" /\ warnings = 1
    /\ StepsGiven /\ TimestepsGiven
    /\ args.num_inference_steps.v # Len(args.timesteps.v)
    /\ Count(calls, "unet") = Len(args.timesteps.v)

\* the effective batch size and the number of source latents of prepare_latents
EffectiveBatch == batch_size * args.num_images_per_prompt
SourceLatents ==
    IF args.image.shape[2] # 4 /\ IsGenList(args.generator)
    THEN Min2(EffectiveBatch, args.image.shape[1])
    ELSE args.image.shape[1]
\* prepare_latents of img2img got as far as its batch-size branches
BatchChecked ==
    /\ I2ITimestepsSet /\ pc # "prepare_latents"
    /\ ~(pc = "raised" /\ err.at \in {"generator_len", "vae_encode"})

\* C12 as stated: an effective batch size that is a multiple of the number
\* of source latents gives a batch of that size; one that is not a multiple
\* makes preparation fail with ValueError.
C12_Original ==
    BatchChecked =>
        /\ (EffectiveBatch % SourceLatents = 0) => Len(init_latents) = EffectiveBatch
        /\ (EffectiveBatch % SourceLatents # 0) =>
              pc = "raised" /\ err = ValueError("image_batch")

\* C12 (amended): a multiple gives a batch of the effective batch size, made
\* of copies of the source latents; a larger effective batch size that is
\* not a multiple fails with ValueError; an effective batch size smaller
\* than the number of source latents is no error and leaves the source
\* latents as they are.
C12_Replication ==
    BatchChecked =>
        /\ (EffectiveBatch % SourceLatents = 0) =>
              /\ Len(init_latents) = EffectiveBatch
              /\ \A k \in 1..Len(init_latents) :
                    init_latents[k] = init_latents[((k - 1) % SourceLatents) + 1]
              /\ err # ValueError("image_batch")
        /\ (EffectiveBatch > SourceLatents /\ EffectiveBatch % SourceLatents # 0) =>
              pc = "raised" /\ err = ValueError("image_batch")
        /\ (EffectiveBatch < SourceLatents) =>
              /\ Len(init_latents) = SourceLatents
              /\ err # ValueError("image_batch")

\* one source image replicated to three images per prompt
C12_Witness ==
    /\ BatchChecked /\ pc = "unet"
    /\ SourceLatents = 1 /\ EffectiveBatch = 3
    /\ Len(init_latents) = 3
    /\ Len(latents) = 3

\* C13: check_inputs of img2img fails with ValueError for a strength below
\* 0 or above 1 and lets every strength of [0, 1], 0 and 1 included, pass
\* the strength check.
C13_StrengthRange ==
    (IsI2I /\ pc # "check_inputs") =>
        /\ (args.strength < 0 \/ args.strength > StrengthDen) =>
              pc = "raised" /\ err = ValueError("strength")
        /\ (0 <= args.strength /\ args.strength <= StrengthDen) =>
              err # ValueError("strength")

\* the two ends of the interval, accepted
C13_Witness ==
    /\ IsI2I /\ pc = "encode_prompt"
    /\ args.strength \in {0, StrengthDen}

\* the latent shape prepare_latents of the consistency pipeline samples
TargetLatentShape == <<batch_size, env.in_channels, env.sample_size, env.sample_size>>

\* C14: in the consistency pipeline supplied latents whose shape differs
\* from (batch_size, input channels of the model, sample size, sample size)
\* fail validation with ValueError, and latents of that shape are accepted.
C14_LatentsShape ==
    (IsCM /\ pc # "check_inputs" /\ ~IsNone(args.latents)) =>
        /\ (args.latents.shape # TargetLatentShape) =>
              pc = "raised" /\ err.type = "ValueError" /\ err.at \in CMCheckErrors
        /\ (args.latents.shape = TargetLatentShape) =>
              err # ValueError("latents_shape")

\* callback_steps as the caller passed it is a positive integer
PositiveCallbackSteps ==
    /\ ~IsNone(args.callback_steps)
    /\ args.callback_steps.tag = "int"
    /\ args.callback_steps.v >= 1

\* C15: in both pipelines a callback_steps that is None, no integer, zero
\* or negative fails validation with ValueError, with or without a
\* callback; every positive integer passes.
C15_CallbackSteps ==
    (pc # "check_inputs") =>
        /\ ~PositiveCallbackSteps =>
              /\ pc = "raised" /\ err.type = "ValueError"
              /\ err.at \in (IF IsI2I THEN I2ICheckErrors ELSE CMCheckErrors)
              /\ calls = <<>>
        /\ PositiveCallbackSteps => err # ValueError("callback_steps")

\* a call without callback rejected for its callback_steps
C15_Witness ==
    /\ pc = "raised" /\ err = ValueError("callback_steps")
    /\ ~args.callback
    /\ args.callback_steps \in {None, StrV, IntV(0), IntV(0 - 1)}

\* both embeddings were passed in
BothEmbedsGiven == ~IsNone(args.prompt_embeds) /\ ~IsNone(args.negative_prompt_embeds)
\* the checks check_inputs makes before it compares the embeddings pass
EarlierChecksPass ==
    /\ 0 <= args.strength /\ args.strength <= StrengthDen
    /\ PositiveCallbackSteps
    /\ IsNone(args.prompt) /\ IsNone(args.negative_prompt)

\* C16: check_inputs of img2img fails with ValueError when prompt_embeds and
\* negative_prompt_embeds are both given with different shapes, and this
\* check passes when their shapes are equal.
C16_EmbedsShape ==
    (IsI2I /\ pc # "check_inputs" /\ BothEmbedsGiven) =>
        /\ (args.prompt_embeds.shape # args.negative_prompt_embeds.shape) =>
              /\ pc = "raised" /\ err.type = "ValueError" /\ err.at \in I2ICheckErrors
              /\ EarlierChecksPass => err = ValueError("embeds_shape")
        /\ (args.prompt_embeds.shape = args.negative_prompt_embeds.shape) =>
              err # ValueError("embeds_shape")

\* embeddings that agree in batch size and differ in length, rejected
C16_Witness ==
    /\ IsI2I /\ pc = "raised" /\ err = ValueError("embeds_shape")
    /\ BothEmbedsGiven
    /\ args.prompt_embeds.shape[1] = args.negative_prompt_embeds.shape[1]

\* C17: with strength 1 the start index is 0, the loop's timesteps are the
\* scheduler's whole schedule, and all num_inference_steps steps run.
C17_FullStrength ==
    (I2ITimestepsSet /\ args.strength = StrengthDen) =>
        /\ StartTrunc = 0
        /\ timesteps.v = scheduler_timesteps
        /\ num_inference_steps.v = N0
        /\ LoopDone =>
              /\ Count(calls, "unet") = Len(scheduler_timesteps)
              /\ Count(calls, "step") = Len(scheduler_timesteps)
              /\ env.full => Count(calls, "step") = N0 * env.order
              /\ i = Len(scheduler_timesteps)

\* a call of strength 1 that ran all steps of the largest step count
C17_Witness ==
    /\ IsI2I /\ args.strength = StrengthDen /\ pc = "returned"
    /\ N0 = MaxSteps /\ env.order = 1
    /\ Count(calls, "step") = N0
    /\ progress = N0

\* C18: in the consistency pipeline explicit timesteps configure the
\* scheduler and the step count is the length of the schedule it then has;
\* otherwise the scheduler is asked for num_inference_steps entries; either
\* way the loop goes through exactly the scheduler's timesteps, in order.
C18_ConsistencySchedule ==
    CMTimestepsSet =>
        /\ TimestepsGiven =>
              /\ scheduler_timesteps = explicit_schedule(args.timesteps.v)
              /\ num_inference_steps.v = Len(scheduler_timesteps)
        /\ ~TimestepsGiven =>
              /\ scheduler_timesteps = set_timesteps(args.num_inference_steps.v, 1, TRUE)
              /\ num_inference_steps.v = args.num_inference_steps.v
        /\ timesteps.v = scheduler_timesteps
        /\ (pc \in {"unet", "step"}) => i < Len(scheduler_timesteps)
        /\ (pc = "step") =>
              model_input = [k \in 1..Len(latents) |-> ScaleElem(latents[k], scheduler_timesteps[i + 1])]
        /\ LoopDone =>
              /\ i = Len(scheduler_timesteps)
              /\ Count(calls, "unet") = Len(scheduler_timesteps)
              /\ progress = num_inference_steps.v

\* a run over an explicit list, without num_inference_steps
C18_Witness ==
    /\ IsCM /\ pc = "returned"
    /\ TimestepsGiven /\ ~StepsGiven
    /\ i = Len(args.timesteps.v)
    /\ progress = Len(args.timesteps.v)

\* C19: the output of img2img post-processing has the batch size of the
\* final latent; flagged images stay in it and exactly they are not
\* denormalized; the unsafe-flag result has one flag per image when a
\* safety checker is configured and decoding ran, and is None when no
\* safety checker is configured.
C19_PostprocessBatch ==
    (IsI2I /\ pc = "returned") =>
        /\ Len(image.vals) = Len(latents)
        /\ Len(image.do_denormalize) = Len(latents)
        /\ (env.has_safety_checker /\ args.output_type # "latent") =>
              /\ has_nsfw_concept.tag = "flags"
              /\ Len(has_nsfw_concept.v) = Len(latents)
              /\ \A k \in 1..Len(latents) :
                    image.do_denormalize[k] = ~has_nsfw_concept.v[k]
        /\ (~env.has_safety_checker \/ args.output_type = "latent") =>
              /\ has_nsfw_concept = None
              /\ \A k \in 1..Len(latents) : image.do_denormalize[k]
        /\ (args.output_type = "latent") =>
              /\ image.vals = latents
              /\ Count(calls, "vae_decode") = 0

\* a batch of which one image is flagged and another is not
C19_Witness ==
    /\ IsI2I /\ pc = "returned" /\ env.has_safety_checker
    /\ Len(latents) >= 2 /\ Len(image.vals) = Len(latents)
    /\ has_nsfw_concept.tag = "flags"
    /\ has_nsfw_concept.v[1] /\ ~has_nsfw_concept.v[2]
    /\ ~image.do_denormalize[1] /\ image.do_denormalize[2]

\* the part two sequences have in common
CommonLen(a, b) == Min2(Len(a), Len(b))
\* the second invocation has done so far what the first one did
SameAsFirst ==
    /\ \A j \in 1..CommonLen(trajectory, first.trajectory) :
          trajectory[j] = first.trajectory[j]
    /\ \A j \in 1..CommonLen(calls, first.calls) :
          calls[j] = first.calls[j]
    /\ (pc = "returned" /\ first.pc = "returned") =>
          trajectory = first.trajectory /\ calls = first.calls

\* C20: two invocations with the same parameters and the same seeded
\* generator state go through the same latents (the initial one and the one
\* after every iteration) and the same collaborator calls.
C20_Deterministic == (run = 2) => SameAsFirst

\* the calls of the denoising model and of the scheduler step, in order
IsLoopCall(c) == c \in {"unet", "step"}
LoopCalls == SelectSeq(calls, IsLoopCall)
\* n iterations: model call, then step, n times
Alternating(n) == [k \in 1..(2 * n) |-> IF k % 2 = 1 THEN "unet" ELSE "step"]

\* C21: a run that completes calls the denoising model once and the
\* scheduler step once per consumed timestep, in schedule order, the model
\* call of an iteration before its step, and makes no such call after the
\* step of the last timestep.
C21_OncePerTimestep ==
    /\ (pc = "unet") =>
          /\ LoopCalls = Alternating(i)
          /\ i < Len(timesteps.v)
    /\ (pc = "step") =>
          /\ LoopCalls = Alternating(i) \o <<"unet">>
          /\ \A k \in 1..Len(latents) :
                model_input[k] = ScaleElem(latents[k], timesteps.v[i + 1])
    /\ (pc \in {"postprocess", "returned"}) =>
          /\ LoopCalls = Alternating(Len(timesteps.v))
          /\ i = Len(timesteps.v)
    /\ (pc = "returned" /\ Len(timesteps.v) > 0) =>
          \E k \in 1..Len(calls) :
              /\ calls[k] = "step"
              /\ Count(SubSeq(calls, 1, k), "step") = Len(timesteps.v)
              /\ \A j \in (k + 1)..Len(calls) : ~IsLoopCall(calls[j])

\* a completed img2img run of several iterations, decoded afterwards
C21_Witness ==
    /\ IsI2I /\ pc = "returned" /\ Len(timesteps.v) >= 2
    /\ Count(calls, "unet") = Len(timesteps.v)
    /\ Count(calls, "vae_decode") = 1

\* the latent the scheduler step of the previous iteration is to return
\* for batch element k
SteppedFrom(prev, k) ==
    IF IsI2I THEN StepElem(noise_pred[k], timesteps.v[i], prev[k])
    ELSE StepElem(noise_pred[k], timesteps.v[i], prev[k]) + Randn(SeedOf(args.generator, k), rng - 1, k)

\* C22: in the loop only the scheduler step changes the latent: the latent
\* scaled for the model and handed to the step at iteration i is the one the
\* step of iteration i - 1 returned (the prepared one for i = 0);
\* duplication, scaling, guidance and callback leave it as it is.
C22_OnlyStepChangesLatent ==
    (pc \in {"unet", "step"}) =>
        /\ Len(trajectory) = i + 1
        /\ latents = trajectory[i + 1]
        /\ (pc = "step") =>
              model_input =
                  [k \in 1..Len(model_input) |->
                      ScaleElem(trajectory[i + 1][((k - 1) % Len(latents)) + 1], timesteps.v[i + 1])]
        /\ (pc = "unet" /\ i >= 1) =>
              latents = [k \in 1..Len(trajectory[i]) |-> SteppedFrom(trajectory[i], k)]

\* a guided iteration after one in which the callback ran
C22_Witness ==
    /\ IsI2I /\ pc = "step" /\ i >= 1 /\ cfg
    /\ callbacks # <<>>
    /\ Len(model_input) = 2 * Len(latents)
    /\ latents = trajectory[i + 1]
    /\ trajectory[i + 1] # trajectory[i]

\* validation is over and did not reject the call
Validated ==
    /\ pc # "check_inputs"
    /\ ~(pc = "raised" /\ err.at \in (IF IsI2I THEN I2ICheckErrors ELSE CMCheckErrors))

\* C23 as stated: from the end of validation on, the step count, the
\* timesteps and the batch size are the values the caller passed.
C23_Original ==
    Validated =>
        /\ num_inference_steps = args.num_inference_steps
        /\ IsCM => timesteps = args.timesteps
        /\ IsCM => batch_size = args.batch_size

\* C23 (amended): the step count and the timesteps keep the caller's values
\* only until the schedule is set; from then on img2img holds the remaining
\* step count in num_inference_steps, and the consistency pipeline holds
\* the scheduler's schedule in timesteps and, when timesteps were passed,
\* its length in num_inference_steps.  The batch size stays as passed.
C23_ReboundParameters ==
    Validated =>
        /\ IsCM => batch_size = args.batch_size
        /\ (~I2ITimestepsSet /\ ~CMTimestepsSet) =>
              /\ num_inference_steps = args.num_inference_steps
              /\ IsCM => timesteps = args.timesteps
        /\ I2ITimestepsSet =>
              num_inference_steps = IntV(N0 - StartTrunc)
        /\ CMTimestepsSet =>
              /\ timesteps = SeqV(scheduler_timesteps)
              /\ num_inference_steps =
                    (IF TimestepsGiven THEN IntV(Len(scheduler_timesteps))
                     ELSE args.num_inference_steps)

\* an img2img run that returned with a smaller step count than was passed
C23_Witness ==
    /\ IsI2I /\ pc = "returned"
    /\ num_inference_steps.v < N0
    /\ num_inference_steps.v > 0

\* C24: img2img decodes the final latent through the VAE, and passes the
\* result through the safety check, for every output format but "latent";
\* for "latent" neither the VAE decode nor the safety checker is called,
\* the image is the final latent and the unsafe-flag result is None.
C24_DecodeUnlessLatent ==
    /\ (IsI2I /\ pc = "returned" /\ args.output_type # "latent") =>
          /\ Count(calls, "vae_decode") = 1
          /\ Count(calls, "safety_checker") = (IF env.has_safety_checker THEN 1 ELSE 0)
          /\ Len(image.vals) = Len(latents)
          /\ \A k \in 1..Len(latents) :
                image.vals[k] \in {DecodeElem(latents[k], env.scaling_factor), SafetyElem(DecodeElem(latents[k], env.scaling_factor), TRUE)}
          /\ ~env.has_safety_checker =>
                \A k \in 1..Len(latents) : image.vals[k] = DecodeElem(latents[k], env.scaling_factor)
    /\ (IsI2I /\ pc = "returned" /\ args.output_type = "latent") =>
          /\ Count(calls, "vae_decode") = 0
          /\ Count(calls, "safety_checker") = 0
          /\ image.vals = latents
          /\ has_nsfw_concept = None
    /\ (IsI2I /\ pc = "raised" /\ err.at = "vae_decode") => args.output_type # "latent"

\* a latent-mode run of a pipeline that has a safety checker
C24_Witness ==
    /\ IsI2I /\ pc = "returned" /\ args.output_type = "latent"
    /\ env.has_safety_checker
    /\ latents # <<>> /\ image.vals = latents
    /\ Count(calls, "vae_decode") = 0

\* the denoising model or the scheduler step faulted
LoopFault == err.type = "Fault" /\ err.at \in {"unet", "step"}

\* C25: a fault of the denoising model or of the scheduler step ends the
\* invocation with that fault: the call is not made again, no later
\* iteration, callback, decode or post-processing runs and no image is
\* returned.
C25_FaultIsFatal ==
    /\ (err # NoError) => pc = "raised"
    /\ (pc = "raised") => ~ENABLED Next
    /\ (pc = "raised" /\ LoopFault) =>
          /\ calls[Len(calls)] = err.at
          /\ Count(calls, err.at) = i + 1
          /\ LoopCalls = Alternating(i) \o (IF err.at = "unet" THEN <<"unet">> ELSE <<"unet", "step">>)
          /\ \A k \in 1..Len(callbacks) : callbacks[k] < i
          /\ progress <= i
          /\ Len(trajectory) = i + 1
          /\ Count(calls, "vae_decode") = 0
          /\ Count(calls, "safety_checker") = 0
          /\ image = None
          /\ has_nsfw_concept = None

\* a scheduler step that faulted in a later iteration, after a callback
C25_Witness ==
    /\ pc = "raised" /\ err = Fault("step")
    /\ i >= 1 /\ i + 1 < Len(timesteps.v)
    /\ callbacks # <<>>
    /\ image = None

\* C26: with a scheduler that exposes num_inference_steps * order timesteps,
\* the img2img loop has updated the progress bar once per completed group of
\* order iterations, so a completed run with at least one iteration has
\* made as many updates as the remaining step count get_timesteps returned
\* (the total of the bar); the consistency loop has made one update per
\* completed iteration.
C26_ProgressUpdates ==
    /\ (IsI2I /\ env.full /\ I2ITimestepsSet) =>
          /\ Len(timesteps.v) = num_inference_steps.v * env.order
          /\ progress = i \div env.order
    /\ (IsI2I /\ env.full /\ LoopDone /\ Len(timesteps.v) >= 1) =>
          /\ i = Len(timesteps.v)
          /\ progress = num_inference_steps.v
    /\ (~IsI2I) => progress = i
    /\ (~IsI2I /\ LoopDone) => progress = Len(timesteps.v)

\* a completed img2img run of two remaining steps with a scheduler of order 2
C26_Witness ==
    /\ IsI2I /\ pc = "returned"
    /\ env.full /\ env.order = 2
    /\ num_inference_steps.v = 2 /\ num_inference_steps.v < N0
    /\ Len(timesteps.v) = 4
    /\ progress = 2

\* prepare_latents of img2img returned
LatentsPrepared ==
    BatchChecked /\ ~(pc = "raised" /\ err.at \in {"image_batch", "randn_tensor", "add_noise"})

\* C27: prepare_latents of img2img raises the batch-mismatch ValueError
\* only for an effective batch size that is greater than the number of
\* source latents and not a multiple of it; with at least as many source
\* latents as the effective batch size it raises no such error, replicates
\* nothing, and the latent batch has as many entries as there are source
\* latents.
C27_BatchMismatch ==
    BatchChecked =>
        /\ (err = ValueError("image_batch")) =>
              /\ pc = "raised"
              /\ EffectiveBatch > SourceLatents
              /\ EffectiveBatch % SourceLatents # 0
        /\ (SourceLatents >= EffectiveBatch) =>
              /\ err.type # "ValueError"
              /\ Len(init_latents) = SourceLatents
              /\ (args.image.shape[2] = 4) => init_latents = args.image.vals
              /\ (LatentsPrepared /\ Len(latent_timestep) >= 1) =>
                    Len(latents) = SourceLatents

\* two source images for an effective batch size of one
C27_Witness ==
    /\ LatentsPrepared /\ pc = "returned"
    /\ SourceLatents = 2 /\ EffectiveBatch = 1
    /\ Len(init_latents) = 2
    /\ Len(latents) = 2

====
